---- MODULE Spec2Model ----
(***************************************************************************)
(* Model of the document-to-structured-data pipeline of ai-bank:           *)
(* FinancialDocumentProcessor (src/src/agents/document_processor.py).      *)
(*                                                                         *)
(* Text is a sequence of one-character strings.  The completion service,   *)
(* the PDF library and the file system are external: their results are     *)
(* drawn nondeterministically, and the code that handles them is modelled  *)
(* as written.                                                             *)
(***************************************************************************)
EXTENDS Integers, Sequences, FiniteSets, TLC

(* ------------------------------ bounds --------------------------------- *)

\* longest structured-extraction response explored exhaustively
MaxLen == 6

\* last second of the wall clock
MaxClock == 2

\* longest classifier response explored exhaustively
MaxResponse == 4

\* longest page list given to create_financial_pages_pdf directly
MaxSelection == 2

\* the files that arrive in the upload folder
MaxUploads == 3

\* the writes to the extracted_data folder that a consumer may come after
MaxWrites == 3

\* the calendar years explored: FirstYear and the NumYears - 1 after it
FirstYear == 2023

NumYears == 2

(* ------------------------- text primitives ----------------------------- *)

\* Characters of a structured-extraction response.  "k" stands for the
\* lexeme of an object key with its colon ("key":), "1" for a digit, "a"
\* for any other non-blank character, " " for white space.
JsonChars == {"{", "}", "k", "1", "a", " "}

Min(S) == CHOOSE x \in S : \A y \in S : x <= y

Max(S) == CHOOSE x \in S : \A y \in S : x >= y

\* all texts over chars of length 0..n
Texts(chars, n) == UNION {[1..m -> chars] : m \in 0..n}

\* str.strip()
Strip(s) ==
    LET keep == {i \in 1..Len(s) : s[i] /= " "}
    IN  IF keep = {} THEN <<>> ELSE SubSeq(s, Min(keep), Max(keep))

\* str.startswith(c), c one character
StartsWith(s, c) == Len(s) > 0 /\ s[1] = c

\* str.find(c): 0-based index of the first c, -1 when there is none
Find(s, c) ==
    LET at == {i \in 1..Len(s) : s[i] = c}
    IN  IF at = {} THEN -1 ELSE Min(at) - 1

\* RFind gone wrong: the first occurrence instead of the last
RFindFirst(s, c) == Find(s, c)

\* str.rfind(c): 0-based index of the last c, -1 when there is none
RFind(s, c) ==
    LET at == {i \in 1..Len(s) : s[i] = c}
    IN  IF at = {} THEN -1 ELSE Max(at) - 1

\* s[a:] for a >= 0
SliceFrom(s, a) == SubSeq(s, a + 1, Len(s))

\* s[:b] for b >= 0
SliceTo(s, b) == SubSeq(s, 1, IF b < Len(s) THEN b ELSE Len(s))

(* ----------------------------- json.loads ------------------------------ *)

\* A parsed value is kept in canonical text (white space removed), so that
\* two values are equal exactly when their canonical texts are.
NoParse == [ok |-> FALSE, next |-> 0, val |-> <<>>]

\* index of the first non-blank character at or after i (Len(s)+1 if none)
SkipWs(s, i) ==
    LET rest == {j \in i..Len(s) : s[j] /= " "}
    IN  IF rest = {} THEN Len(s) + 1 ELSE Min(rest)

\* a number: a maximal run of digits starting at i
ParseNumber(s, i) ==
    LET stop == {j \in i..Len(s) : s[j] /= "1"}
        e    == IF stop = {} THEN Len(s) + 1 ELSE Min(stop)
    IN  [ok |-> TRUE, next |-> e, val |-> SubSeq(s, i, e - 1)]

RECURSIVE ParseValue(_, _)
\* a JSON value starting at i: a number, or an object with at most one member
ParseValue(s, i) ==
    IF i > Len(s) THEN NoParse
    ELSE IF s[i] = "1" THEN ParseNumber(s, i)
    ELSE IF s[i] = "{" THEN
        LET j == SkipWs(s, i + 1)
        IN  IF j > Len(s) THEN NoParse
            ELSE IF s[j] = "}" THEN
                [ok |-> TRUE, next |-> j + 1, val |-> <<"{", "}">>]
            ELSE IF s[j] = "k" THEN
                LET v == ParseValue(s, SkipWs(s, j + 1))
                    e == SkipWs(s, v.next)
                IN  IF v.ok /\ e <= Len(s) /\ s[e] = "}"
                    THEN [ok |-> TRUE, next |-> e + 1,
                          val |-> <<"{", "k">> \o v.val \o <<"}">>]
                    ELSE NoParse
            ELSE NoParse
    ELSE NoParse

\* json.loads(text): one value, white space around it allowed, nothing else;
\* ok = FALSE is json.JSONDecodeError
JsonLoads(text) ==
    LET v == ParseValue(text, SkipWs(text, 1))
    IN  IF v.ok /\ SkipWs(text, v.next) = Len(text) + 1
        THEN [ok |-> TRUE, val |-> v.val]
        ELSE [ok |-> FALSE, val |-> <<>>]

\* a parsed value that is a JSON object (a dict)
IsObject(val) == StartsWith(val, "{")

(* ------------------- the response repair of step 3 --------------------- *)

\* CleanResponse gone wrong: the text is cut at its last brace even when it
\* starts with one
CleanResponseAlwaysCut(content) ==
    LET stripped == Strip(content)
        start    == Find(stripped, "{")
    IN  IF start /= -1
        THEN LET from == SliceFrom(stripped, start)
             IN  SliceTo(from, RFind(from, "}") + 1)
        ELSE stripped

\* cleaned_response after "Clean the response"
CleanResponse(content) ==
    LET stripped == Strip(content)
    IN  IF ~StartsWith(stripped, "{")
        THEN LET start == Find(stripped, "{")
             IN  IF start /= -1
                 THEN LET from == SliceFrom(stripped, start)
                          end  == RFind(from, "}") + 1
                      IN  SliceTo(from, end)
                 ELSE stripped
        ELSE stripped

\* the value the try block hands on: json.loads of the cleaned response
ParseResponse(content) == JsonLoads(CleanResponse(content))

(* ------------------- the page numbers of step 1 ------------------------ *)

\* Characters of a classifier response: digits, "a" for any other word
\* character, " " for any non-word character.
ClassChars == {"1", "2", "3", "a", " "}

IsDigit(c) == c \in {"1", "2", "3"}

\* \w of the regular expression
IsWord(c) == IsDigit(c) \/ c = "a"

DigitVal(c) == CASE c = "1" -> 1 [] c = "2" -> 2 [] c = "3" -> 3 [] OTHER -> 0

RECURSIVE ToInt(_)
\* int(num) of a run of digits
ToInt(num) ==
    IF num = <<>> THEN 0
    ELSE 10 * ToInt(SubSeq(num, 1, Len(num) - 1)) + DigitVal(num[Len(num)])

\* last index of the run of word characters that starts at i
WordEnd(s, i) ==
    LET stop == {j \in i..Len(s) : ~IsWord(s[j])}
    IN  IF stop = {} THEN Len(s) ELSE Min(stop) - 1

\* the start indices of the matches of \b\d+\b: a run of word characters
\* that begins at a word boundary and consists of digits only
MatchStarts(s) ==
    {i \in 1..Len(s) :
        /\ IsDigit(s[i])
        /\ (i = 1 \/ ~IsWord(s[i - 1]))
        /\ \A j \in i..WordEnd(s, i) : IsDigit(s[j])}

RECURSIVE InOrder(_, _)
\* the matches that start in `starts`, left to right, each as int
InOrder(s, starts) ==
    IF starts = {} THEN <<>>
    ELSE LET i == Min(starts)
         IN  <<ToInt(SubSeq(s, i, WordEnd(s, i)))>> \o InOrder(s, starts \ {i})

\* [int(num) for num in re.findall(r'\b\d+\b', response.content)]
PageNumbers(content) == InOrder(content, MatchStarts(content))

\* NoPageNumbers gone wrong: the empty list is let through
NoPageNumbersIgnored(pages) == FALSE

\* "if not financial_pages": the list of page numbers is empty
NoPageNumbers(pages) == pages = <<>>

(* --------------------------- the pipeline ------------------------------ *)

\* two invocations of process_document, in one process or in two
Runs == {"r1", "r2"}

\* the source documents in the upload folder, each of NumPages pages
Docs == {"a.pdf", "b.pdf"}

NumPages == 2

NoDoc == "none"

\* a file name is its %Y%m%d_%H%M%S time stamp; NoPath is "no path yet"
Paths == 0..MaxClock

NoPath == -1

\* classifier responses a run may receive
ClassifierResponses ==
    { <<"a", "1">>, <<"2", " ", "1">>, <<"1", " ", "1">>, <<"3">> }

\* structured-extraction responses a run may receive
ExtractionResponses ==
    { <<"{", "}">>, <<"a", " ", "{", "k", "1", "}", " ", "a">>,
      <<"{", "}", "a">>, <<"1">> }

NoResponse == <<"?">>

Stages == {"START", "TextRead", "Classified", "WritingPdf", "PagesFiltered",
           "WritingJson", "DONE", "FAILED"}

VARIABLES
    now,                 \* datetime.now(), in seconds
    pc,                  \* where each run of process_document is
    file_path,           \* the argument of process_document
    response,            \* the classifier response of find_financial_pages
    financial_pages,     \* the list find_financial_pages returned
    financial_pdf_path,  \* the path create_financial_pages_pdf writes
    extracted_data,      \* the value json.loads returned
    output_path,         \* the path extract_from_financial_pdf writes
    outcome,             \* what the caller of process_document receives
    dir_financial_pages, \* document_processing/financial_pages
    dir_extracted,       \* document_processing/extracted_data
    failed_at,           \* history: the stage in which the run failed
    wrote,               \* history: the artifacts each run wrote completely
    ran_after,           \* history: the runs that had ended when the run began
    source,              \* the source documents: where each is, and its pages
    llm_calls,           \* history: the completion calls each run made
    x_content,           \* response.content of one extraction call
    x_cleaned,           \* cleaned_response of that call
    x_pc,                \* position of that call
    x_outcome,           \* what that call returned or raised
    x_files,             \* the files that call left in extracted_data
    s_content,           \* response.content of one find_financial_pages call
    s_pages,             \* the pages returned, or given to create_financial_pages_pdf
    s_pc,                \* position of that call
    s_outcome,           \* what the last call returned or raised
    s_file,              \* the file create_financial_pages_pdf left
    w_pc,                \* position of process_new_document
    w_doc                \* the document process_new_document was called for

pvars == <<now, pc, file_path, response, financial_pages, financial_pdf_path,
           extracted_data, output_path, outcome, dir_financial_pages,
           dir_extracted, failed_at, wrote, ran_after, source, llm_calls>>

xvars == <<x_content, x_cleaned, x_pc, x_outcome, x_files>>

svars == <<s_content, s_pages, s_pc, s_outcome, s_file>>

wvars == <<w_pc, w_doc>>

VARIABLES
    d_now,               \* datetime.now(), as a calendar date
    d_caller,            \* the function that computes the date range
    d_pc,                \* position of that computation
    d_result             \* the (start, end) pair it produced

dvars == <<d_now, d_caller, d_pc, d_result>>

VARIABLES
    l_record,            \* the JSON value load_financial_data read from the file
    l_api,               \* what get_financial_statements answers when asked
    l_pc,                \* position of load_financial_data
    l_called,            \* history: get_financial_statements was called
    l_data               \* the data load_financial_data returned

lvars == <<l_record, l_api, l_pc, l_called, l_data>>

VARIABLES
    u_folders,           \* upload, processing, completed, failed: name -> file
    u_count,             \* the files uploaded so far
    u_pending,           \* the names whose on_created event waits to be handled
    u_pc,                \* position of process_new_document
    u_name               \* the name of the file being handled

uvars == <<u_folders, u_count, u_pending, u_pc, u_name>>

VARIABLES
    v_pc,                \* position of the document service (__main__)
    v_files,             \* existing_files: the PDFs glob found in the upload folder
    v_next,              \* position of the for loop in existing_files
    v_doc,               \* the file handed to the pipeline
    v_handed             \* history: how often each file was handed to the pipeline

vvars == <<v_pc, v_files, v_next, v_doc, v_handed>>

VARIABLES
    c_folder,            \* the JSON files of extracted_data, oldest st_mtime first
    c_run,               \* the document of the completed run R the consumer is after
    c_writes,            \* the writes to the folder so far
    c_pc,                \* position of the consumer
    c_read               \* latest_file, the file the consumer loaded

cvars == <<c_folder, c_run, c_writes, c_pc, c_read>>

ovars == <<dvars, lvars, uvars, vvars, cvars>>

vars == <<pvars, xvars, svars, wvars, ovars>>

NoFile == [state |-> "absent", writer |-> "none", doc |-> NoDoc, content |-> <<>>]

\* open(path, "w"): the file exists and is empty until the write is done
OpenedFile(r, d) == [state |-> "partial", writer |-> r, doc |-> d, content |-> <<>>]

WrittenFile(r, d, c) == [state |-> "complete", writer |-> r, doc |-> d, content |-> c]

NoOutcome == [kind |-> "none", value |-> <<>>, error |-> "", stage |-> ""]

\* "return extracted_data": the caller receives the parsed value itself
Return(value) == [kind |-> "return", value |-> value, error |-> "", stage |-> ""]

\* an exception leaves process_document as it was raised: the except blocks
\* log and re-raise it, so it carries its message and no stage
Raise(error) == [kind |-> "raise", value |-> <<>>, error |-> error, stage |-> ""]

\* dict.get(key) is not None, for the parsed value of a response: the only
\* key a value of this model can hold is "k"
HasKey(value, key) == IsObject(value) /\ Len(value) > 2 /\ key = "k"

(* ----------------------- process_document ------------------------------ *)

\* StageAfter gone wrong: the text goes straight to step 3
StageAfterSkipping(stage) ==
    CASE stage = "START"         -> "TextRead"
      [] stage = "TextRead"      -> "PagesFiltered"
      [] stage = "Classified"    -> "WritingPdf"
      [] stage = "WritingPdf"    -> "PagesFiltered"
      [] stage = "PagesFiltered" -> "WritingJson"
      [] OTHER                   -> "DONE"

\* StageAfter gone wrong: step 1 is entered again after it has run
StageAfterRetrying(stage) ==
    CASE stage = "START"         -> "TextRead"
      [] stage = "TextRead"      -> "TextRead"
      [] stage = "Classified"    -> "WritingPdf"
      [] stage = "WritingPdf"    -> "PagesFiltered"
      [] stage = "PagesFiltered" -> "WritingJson"
      [] OTHER                   -> "DONE"

\* StageAfter gone wrong: step 2 hands the run back to step 1
StageAfterLooping(stage) ==
    CASE stage = "START"         -> "TextRead"
      [] stage = "TextRead"      -> "Classified"
      [] stage = "Classified"    -> "TextRead"
      [] stage = "WritingPdf"    -> "PagesFiltered"
      [] stage = "PagesFiltered" -> "WritingJson"
      [] OTHER                   -> "DONE"

\* the order in which process_document runs its steps; the two Writing
\* positions are inside the "with open(...)" blocks of steps 2 and 3
StageAfter(stage) ==
    CASE stage = "START"         -> "TextRead"
      [] stage = "TextRead"      -> "Classified"
      [] stage = "Classified"    -> "WritingPdf"
      [] stage = "WritingPdf"    -> "PagesFiltered"
      [] stage = "PagesFiltered" -> "WritingJson"
      [] OTHER                   -> "DONE"

Advance(r) == pc' = [pc EXCEPT ![r] = StageAfter(pc[r])]

\* an exception propagates out of process_document, which catches nothing
Fails(r, stage, error) ==
    /\ pc' = [pc EXCEPT ![r] = "FAILED"]
    /\ outcome' = [outcome EXCEPT ![r] = Raise(error)]
    /\ failed_at' = [failed_at EXCEPT ![r] = stage]

\* open(financial_pdf_path, 'rb') and PyPDF2.PdfReader(file) succeed: the
\* file is there and is a whole PDF
Readable(path) == path \in Paths /\ dir_financial_pages[path].state = "complete"

\* AddedPages gone wrong: the pages are added last to first
AddedPagesReversed(pages) ==
    LET kept == SelectSeq(pages, LAMBDA p : 1 <= p /\ p <= NumPages)
    IN  [k \in 1..Len(kept) |-> kept[Len(kept) + 1 - k]]

\* AddedPages gone wrong: idx = page_num, without the - 1
AddedPagesOffByOne(pages) ==
    LET kept == SelectSeq(pages, LAMBDA p : 0 <= p /\ p < NumPages)
    IN  [k \in 1..Len(kept) |-> kept[k] + 1]

\* the pages create_financial_pages_pdf adds to the writer
AddedPages(pages) == SelectSeq(pages, LAMBDA p : 0 <= p - 1 /\ p - 1 < NumPages)

\* a source document as it was uploaded: all its pages, in the upload folder
SourceFile(d) ==
    [folder |-> "upload", state |-> "complete", content |-> [i \in 1..NumPages |-> i]]

\* OpenSource gone wrong: the document is opened for writing, which empties it
OpenSourceForWriting(file) == [file EXCEPT !.state = "partial", !.content = <<>>]

\* open(file_path, 'rb'): the document is opened for reading and stays as it is
OpenSource(file) == file

\* most completion calls of one kind that a run is counted to have made
MaxCalls == 3

NoCalls == [classify |-> 0, extract |-> 0]

\* self.llm.invoke was called once more
CountCall(n) == IF n < MaxCalls THEN n + 1 ELSE n

\* no call of find_financial_pages or create_financial_pages_pdf on its own
IdleSelect ==
    /\ s_content = NoResponse
    /\ s_pages = <<>>
    /\ s_pc = "idle"
    /\ s_outcome = NoOutcome
    /\ s_file = NoFile

\* no call of extract_from_financial_pdf on its own
IdleExtract ==
    /\ x_content = <<>>
    /\ x_cleaned = <<>>
    /\ x_pc = "idle"
    /\ x_outcome = NoOutcome
    /\ x_files = {}

\* no watcher
IdleWatch == w_pc = "idle" /\ w_doc = NoDoc

IdleDates == d_now = <<>> /\ d_caller = "none" /\ d_pc = "idle" /\ d_result = <<>>

IdleLoad ==
    /\ l_record = <<>>
    /\ l_api = <<>>
    /\ l_pc = "idle"
    /\ l_called = FALSE
    /\ l_data = <<>>

IdleUploads ==
    /\ u_folders = <<>>
    /\ u_count = 0
    /\ u_pending = {}
    /\ u_pc = "idle"
    /\ u_name = NoDoc

IdleService ==
    /\ v_pc = "idle"
    /\ v_files = <<>>
    /\ v_next = 0
    /\ v_doc = NoDoc
    /\ v_handed = <<>>

IdleConsumer ==
    /\ c_folder = <<>>
    /\ c_run = NoDoc
    /\ c_writes = 0
    /\ c_pc = "idle"
    /\ c_read = <<>>

\* nothing but the document processor is in use
IdleOthers == IdleDates /\ IdleLoad /\ IdleUploads /\ IdleService /\ IdleConsumer

\* no run has begun, the folders are empty, the documents are uploaded
InitRuns ==
    /\ now = 0
    /\ pc = [r \in Runs |-> "START"]
    /\ file_path = [r \in Runs |-> NoDoc]
    /\ response = [r \in Runs |-> NoResponse]
    /\ financial_pages = [r \in Runs |-> <<>>]
    /\ financial_pdf_path = [r \in Runs |-> NoPath]
    /\ extracted_data = [r \in Runs |-> <<>>]
    /\ output_path = [r \in Runs |-> NoPath]
    /\ outcome = [r \in Runs |-> NoOutcome]
    /\ dir_financial_pages = [p \in Paths |-> NoFile]
    /\ dir_extracted = [p \in Paths |-> NoFile]
    /\ failed_at = [r \in Runs |-> "none"]
    /\ wrote = [r \in Runs |-> {}]
    /\ ran_after = [r \in Runs |-> {}]
    /\ source = [d \in Docs |-> SourceFile(d)]
    /\ llm_calls = [r \in Runs |-> NoCalls]

Init ==
    /\ InitRuns
    /\ IdleOthers
    /\ IdleExtract
    /\ IdleSelect
    /\ IdleWatch

\* the clock moves on by a second
Tick ==
    /\ now < MaxClock
    /\ now' = now + 1
    /\ UNCHANGED <<pc, file_path, response, financial_pages, financial_pdf_path,
                   extracted_data, output_path, outcome, dir_financial_pages,
                   dir_extracted, failed_at, wrote, ran_after, source, llm_calls,
                   xvars, svars, wvars, ovars>>

\* process_document is called on a document and reads its text
ReadText(r) ==
    /\ pc[r] = "START"
    /\ \E d \in Docs, ok \in BOOLEAN :
        /\ file_path' = [file_path EXCEPT ![r] = d]
        /\ source' = [source EXCEPT ![d] = OpenSource(@)]
        /\ ran_after' = [ran_after EXCEPT ![r] = {q \in Runs : pc[q] \in {"DONE", "FAILED"}}]
        /\ IF ok THEN Advance(r) /\ UNCHANGED <<outcome, failed_at>>
                 ELSE Fails(r, "text_read", "IOError")
    /\ UNCHANGED <<now, response, financial_pages, financial_pdf_path,
                   extracted_data, output_path, dir_financial_pages,
                   dir_extracted, wrote, llm_calls, xvars, svars, wvars, ovars>>

\* step 1, find_financial_pages
Classify(r) ==
    /\ pc[r] = "TextRead"
    /\ llm_calls' = [llm_calls EXCEPT ![r].classify = CountCall(@)]
    /\ \/ \E content \in ClassifierResponses :
            /\ response' = [response EXCEPT ![r] = content]
            /\ IF NoPageNumbers(PageNumbers(content))
               THEN /\ Fails(r, "classification", "ValueError: No page numbers found")
                    /\ UNCHANGED financial_pages
               ELSE /\ financial_pages' = [financial_pages EXCEPT ![r] = PageNumbers(content)]
                    /\ Advance(r)
                    /\ UNCHANGED <<outcome, failed_at>>
       \/ /\ Fails(r, "classification", "completion call raised")
          /\ UNCHANGED <<response, financial_pages>>
    /\ UNCHANGED <<now, file_path, financial_pdf_path, extracted_data, output_path,
                   dir_financial_pages, dir_extracted, wrote, ran_after, source,
                   xvars, svars, wvars, ovars>>

\* step 2, create_financial_pages_pdf up to open(output_path, "wb")
FilterOpen(r) ==
    /\ pc[r] = "Classified"
    /\ \/ /\ financial_pdf_path' = [financial_pdf_path EXCEPT ![r] = now]
          /\ dir_financial_pages' =
                [dir_financial_pages EXCEPT ![now] = OpenedFile(r, file_path[r])]
          /\ Advance(r)
          /\ UNCHANGED <<outcome, failed_at>>
       \/ /\ Fails(r, "page_filtering", "IOError")
          /\ UNCHANGED <<financial_pdf_path, dir_financial_pages>>
    /\ UNCHANGED <<now, file_path, response, financial_pages, extracted_data,
                   output_path, dir_extracted, wrote, ran_after, source, llm_calls,
                   xvars, svars, wvars, ovars>>

\* step 2, writer.write(output_file) and the return of the path
FilterWrite(r) ==
    /\ pc[r] = "WritingPdf"
    /\ \/ /\ dir_financial_pages' =
                [dir_financial_pages EXCEPT ![financial_pdf_path[r]] =
                    WrittenFile(r, file_path[r], AddedPages(financial_pages[r]))]
          /\ wrote' = [wrote EXCEPT ![r] = @ \cup {"pdf"}]
          /\ Advance(r)
          /\ UNCHANGED <<outcome, failed_at>>
       \/ /\ Fails(r, "page_filtering", "IOError")
          /\ UNCHANGED <<dir_financial_pages, wrote>>
    /\ UNCHANGED <<now, file_path, response, financial_pages, financial_pdf_path,
                   extracted_data, output_path, dir_extracted, ran_after, source,
                   llm_calls, xvars, svars, wvars, ovars>>

\* step 3, extract_from_financial_pdf up to open(output_path, 'w')
ExtractParse(r) ==
    /\ pc[r] = "PagesFiltered"
    /\ \/ /\ Readable(financial_pdf_path[r])
          /\ llm_calls' = [llm_calls EXCEPT ![r].extract = CountCall(@)]
          /\ \E content \in ExtractionResponses :
                IF ParseResponse(content).ok
                THEN /\ extracted_data' = [extracted_data EXCEPT ![r] = ParseResponse(content).val]
                     /\ output_path' = [output_path EXCEPT ![r] = now]
                     /\ dir_extracted' = [dir_extracted EXCEPT ![now] = OpenedFile(r, file_path[r])]
                     /\ Advance(r)
                     /\ UNCHANGED <<outcome, failed_at>>
                ELSE /\ Fails(r, "structured_extraction", "ValueError: Could not parse JSON")
                     /\ UNCHANGED <<extracted_data, output_path, dir_extracted>>
       \/ /\ Readable(financial_pdf_path[r])
          /\ llm_calls' = [llm_calls EXCEPT ![r].extract = CountCall(@)]
          /\ Fails(r, "structured_extraction", "completion call raised")
          /\ UNCHANGED <<extracted_data, output_path, dir_extracted>>
       \/ /\ Fails(r, "structured_extraction", "IOError")
          /\ UNCHANGED <<extracted_data, output_path, dir_extracted, llm_calls>>
    /\ UNCHANGED <<now, file_path, response, financial_pages, financial_pdf_path,
                   dir_financial_pages, wrote, ran_after, source, xvars, svars, wvars, ovars>>

\* step 3, json.dump, and "return extracted_data" of process_document
ExtractWrite(r) ==
    /\ pc[r] = "WritingJson"
    /\ \/ /\ dir_extracted' =
                [dir_extracted EXCEPT ![output_path[r]] =
                    WrittenFile(r, file_path[r], extracted_data[r])]
          /\ wrote' = [wrote EXCEPT ![r] = @ \cup {"json"}]
          /\ outcome' = [outcome EXCEPT ![r] = Return(extracted_data[r])]
          /\ Advance(r)
          /\ UNCHANGED failed_at
       \/ /\ Fails(r, "structured_extraction", "IOError")
          /\ UNCHANGED <<dir_extracted, wrote>>
    /\ UNCHANGED <<now, file_path, response, financial_pages, financial_pdf_path,
                   extracted_data, output_path, dir_financial_pages, ran_after, source,
                   llm_calls, xvars, svars, wvars, ovars>>

Next ==
    \/ Tick
    \/ \E r \in Runs : ReadText(r)
    \/ \E r \in Runs : Classify(r)
    \/ \E r \in Runs : FilterOpen(r)
    \/ \E r \in Runs : FilterWrite(r)
    \/ \E r \in Runs : ExtractParse(r)
    \/ \E r \in Runs : ExtractWrite(r)

Spec == Init /\ [][Next]_vars

(* ------------- one call of extract_from_financial_pdf ------------------ *)

\* The call has received response.content = x_content from the completion
\* service; the extracted_data folder is empty before the call.
InitExtract ==
    /\ InitRuns
    /\ IdleOthers
    /\ IdleSelect
    /\ IdleWatch
    /\ x_content \in Texts(JsonChars, MaxLen)
    /\ x_cleaned = <<>>
    /\ x_pc = "call"
    /\ x_outcome = NoOutcome
    /\ x_files = {}

\* the inner try block: the response is cleaned and parsed, and does not parse
ExtractMalformed ==
    /\ x_pc = "call"
    /\ ~ParseResponse(x_content).ok
    /\ x_cleaned' = CleanResponse(x_content)
    /\ x_outcome' = Raise("ValueError: Could not parse JSON")
    /\ x_pc' = "raised"
    /\ UNCHANGED <<x_content, x_files, pvars, svars, wvars, ovars>>

\* the inner try block: the response parses, the value is saved and returned
ExtractSaved ==
    /\ x_pc = "call"
    /\ ParseResponse(x_content).ok
    /\ x_cleaned' = CleanResponse(x_content)
    /\ x_files' = x_files \cup {WrittenFile("x", NoDoc, ParseResponse(x_content).val)}
    /\ x_outcome' = Return(ParseResponse(x_content).val)
    /\ x_pc' = "returned"
    /\ UNCHANGED <<x_content, pvars, svars, wvars, ovars>>

\* the response parses and open(output_path, 'w') or json.dump raises: the
\* file is there when open succeeded, with none or a part of the text
ExtractSaveFails ==
    /\ x_pc = "call"
    /\ ParseResponse(x_content).ok
    /\ x_cleaned' = CleanResponse(x_content)
    /\ \/ x_files' = x_files
       \/ x_files' = x_files \cup {OpenedFile("x", NoDoc)}
    /\ x_outcome' = Raise("IOError")
    /\ x_pc' = "raised"
    /\ UNCHANGED <<x_content, pvars, svars, wvars, ovars>>

NextExtract == ExtractMalformed \/ ExtractSaved \/ ExtractSaveFails

SpecExtract == InitExtract /\ [][NextExtract]_vars

(* ------------------------------ claims --------------------------------- *)

\* the stage order of the specification, with FAILED reachable from every
\* stage that is not terminal
OrderOK(a, b) ==
    \/ a = b
    \/ <<a, b>> \in { <<"START", "TextRead">>, <<"TextRead", "Classified">>,
                      <<"Classified", "WritingPdf">>, <<"WritingPdf", "PagesFiltered">>,
                      <<"PagesFiltered", "WritingJson">>, <<"WritingJson", "DONE">> }
    \/ a \notin {"DONE", "FAILED"} /\ b = "FAILED"

C1_StepOK ==
    \A r \in Runs :
        /\ OrderOK(pc[r], pc'[r])
        /\ (pc[r] = "WritingPdf" /\ pc'[r] = "PagesFiltered") =>
                dir_financial_pages'[financial_pdf_path'[r]] =
                    WrittenFile(r, file_path[r], AddedPages(financial_pages[r]))
        /\ (pc[r] = "WritingJson" /\ pc'[r] = "DONE") =>
                dir_extracted'[output_path'[r]].state = "complete"
        /\ pc[r] = "FAILED" =>
                /\ wrote'[r] = wrote[r]
                /\ financial_pdf_path'[r] = financial_pdf_path[r]
                /\ output_path'[r] = output_path[r]
                /\ outcome'[r] = outcome[r]

C1_Written ==
    \A r \in Runs :
        /\ pc[r] \in {"PagesFiltered", "WritingJson", "DONE"} => "pdf" \in wrote[r]
        /\ pc[r] = "DONE" => wrote[r] = {"pdf", "json"}
        /\ pc[r] \in {"START", "TextRead", "Classified", "WritingPdf"} => wrote[r] = {}

\* C1: every run of process_document passes the stages only in the order
\* text read, classification, page filtering, structured extraction, done;
\* a stage starts only after the stage before it has written its output file
\* completely, none is skipped or entered again, and a failed run stays failed
\* and does nothing more.
C1_StageOrder == [][C1_StepOK]_vars /\ []C1_Written

\* a run that went through every stage, next to one that failed on the way
C1_Witness ==
    \E r, q \in Runs :
        /\ pc[r] = "DONE"
        /\ pc[q] = "FAILED" /\ failed_at[q] = "page_filtering"

\* the files a run has opened or written
FilesOf(r) ==
    {p \in Paths : dir_financial_pages[p].writer = r}
        \cup {p \in Paths : dir_extracted[p].writer = r}

\* C2: when the classifier response holds no integer token, the run fails in
\* the classification stage, it writes no filtered document and no
\* extracted-data file, and no run is at or beyond page filtering with an
\* empty selection.
C2_NoIntegerTokenFails ==
    \A r \in Runs :
        /\ (response[r] /= NoResponse /\ MatchStarts(response[r]) = {}) =>
                /\ pc[r] = "FAILED"
                /\ failed_at[r] = "classification"
                /\ wrote[r] = {}
                /\ FilesOf(r) = {}
                /\ financial_pdf_path[r] = NoPath /\ output_path[r] = NoPath
        /\ pc[r] \in {"Classified", "WritingPdf", "PagesFiltered", "WritingJson", "DONE"} =>
                financial_pages[r] /= <<>>

\* a run received "a1", which holds a digit but no integer token, and failed
C2_Witness ==
    \E r \in Runs : response[r] = <<"a", "1">> /\ pc[r] = "FAILED"

\* C3: a response without any "{" ends the call in a failure: no record is
\* returned, not even an empty one, and no extracted-data file is written.
C3_NoBraceFails ==
    (x_pc /= "call" /\ Find(x_content, "{") = -1) =>
        /\ x_pc = "raised"
        /\ x_outcome.kind = "raise"
        /\ \A f \in x_files : f.state /= "complete"

\* the stripped response does not start with "{" and holds a "{" and a later "}"
C4_Repairable(content) ==
    /\ ~StartsWith(Strip(content), "{")
    /\ \E i, j \in 1..Len(content) : i < j /\ content[i] = "{" /\ content[j] = "}"

\* the text from the first "{" to the last "}"
C4_Span(content) ==
    SubSeq(content,
           Min({i \in 1..Len(content) : content[i] = "{"}),
           Max({j \in 1..Len(content) : content[j] = "}"}))

\* C4: for a response whose stripped text does not start with "{" and that
\* holds a "{" and a later "}", the text parsed is exactly the span from the
\* first "{" to the last "}"; when the span is a well-formed JSON object the
\* call raises no parse error and the record it returns is that object.
C4_SpanParsed ==
    (x_pc /= "call" /\ C4_Repairable(x_content)) =>
        /\ x_cleaned = C4_Span(x_content)
        /\ (JsonLoads(C4_Span(x_content)).ok /\ IsObject(JsonLoads(C4_Span(x_content)).val)) =>
                /\ x_outcome /= Raise("ValueError: Could not parse JSON")
                /\ x_outcome.kind = "return" =>
                        x_outcome.value = JsonLoads(C4_Span(x_content)).val

\* prose, then an object that holds an object, then prose: the record returned
\* is the outer object
C4_Witness ==
    /\ x_content = <<"a", "{", "k", "{", "}", "}">>
    /\ x_pc = "returned"
    /\ x_outcome.value = <<"{", "k", "{", "}", "}">>

\* C5: a run that reaches DONE returns a Success value: its status, the
\* record, and the paths of the filtered document and the extracted-data file.
C5_SuccessCarriesPaths ==
    \A r \in Runs :
        pc[r] = "DONE" =>
            /\ outcome[r].kind = "return"
            /\ HasKey(outcome[r].value, "status")
            /\ HasKey(outcome[r].value, "data")
            /\ HasKey(outcome[r].value, "artifact_paths")

\* C6: a run that fails yields a Failure outcome that names the stage that
\* failed and carries the reason.
C6_FailureNamesStage ==
    \A r \in Runs :
        pc[r] = "FAILED" =>
            /\ outcome[r].kind \in {"return", "raise"}
            /\ outcome[r].error /= ""
            /\ outcome[r].stage = failed_at[r]

\* C7: of two runs on the same source document, the second begun after the
\* first returned, the second writes to paths distinct from the first run's,
\* and the first run's files stay as the first run wrote them.
C7_SequentialRunsDistinctPaths ==
    \A r, q \in Runs :
        (q \in ran_after[r] /\ pc[q] = "DONE" /\ file_path[q] = file_path[r]) =>
            /\ financial_pdf_path[r] /= NoPath => financial_pdf_path[r] /= financial_pdf_path[q]
            /\ output_path[r] /= NoPath => output_path[r] /= output_path[q]
            /\ "pdf" \in wrote[q] => dir_financial_pages[financial_pdf_path[q]].writer = q
            /\ "json" \in wrote[q] => dir_extracted[output_path[q]].writer = q

\* C8: no two runs, however interleaved, write to the same artifact path.
C8_ConcurrentRunsDistinctPaths ==
    \A r, q \in Runs :
        r /= q =>
            /\ financial_pdf_path[r] /= NoPath => financial_pdf_path[r] /= financial_pdf_path[q]
            /\ output_path[r] /= NoPath => output_path[r] /= output_path[q]

\* C9: at every moment the file at an artifact path is absent or complete.
C9_NoPartialArtifact ==
    \A p \in Paths :
        /\ dir_financial_pages[p].state \in {"absent", "complete"}
        /\ dir_extracted[p].state \in {"absent", "complete"}

\* C10: a call that returns has written exactly one extracted-data file, and
\* a call that raises has left the extracted-data folder as it was.
C10_OneFileOrNone ==
    /\ x_pc = "returned" =>
            Cardinality(x_files) = 1 /\ \A f \in x_files : f.state = "complete"
    /\ x_pc = "raised" => x_files = {}

(* ---- find_financial_pages and create_financial_pages_pdf on their own -- *)

\* page lists a caller may give to create_financial_pages_pdf
Selections == UNION {[1..m -> 0..(NumPages + 1)] : m \in 0..MaxSelection}

\* Either find_financial_pages has received response.content = s_content and
\* its result goes to create_financial_pages_pdf, as in process_document, or
\* create_financial_pages_pdf is called with a page list of the caller's.
InitSelect ==
    /\ InitRuns
    /\ IdleOthers
    /\ IdleExtract
    /\ IdleWatch
    /\ s_outcome = NoOutcome
    /\ s_file = NoFile
    /\ \/ /\ s_pc = "find"
          /\ s_content \in Texts(ClassChars, MaxResponse)
          /\ s_pages = <<>>
       \/ /\ s_pc = "create"
          /\ s_content = NoResponse
          /\ s_pages \in Selections

\* find_financial_pages finds page numbers and returns them
FindPagesReturns ==
    /\ s_pc = "find"
    /\ ~NoPageNumbers(PageNumbers(s_content))
    /\ s_pages' = PageNumbers(s_content)
    /\ s_outcome' = Return(<<>>)
    /\ s_pc' = "create"
    /\ UNCHANGED <<s_content, s_file, pvars, xvars, wvars, ovars>>

\* find_financial_pages finds no page number and raises
FindPagesRaises ==
    /\ s_pc = "find"
    /\ NoPageNumbers(PageNumbers(s_content))
    /\ s_outcome' = Raise("ValueError: No page numbers found")
    /\ s_pc' = "raised"
    /\ UNCHANGED <<s_content, s_pages, s_file, pvars, xvars, wvars, ovars>>

\* create_financial_pages_pdf writes the file and returns its path
CreatePdfWrites ==
    /\ s_pc = "create"
    /\ s_file' = WrittenFile("s", NoDoc, AddedPages(s_pages))
    /\ s_outcome' = Return(<<>>)
    /\ s_pc' = "written"
    /\ UNCHANGED <<s_content, s_pages, pvars, xvars, wvars, ovars>>

\* PdfReader, open or writer.write raises: the file is there when open
\* succeeded, with none or a part of the pages
CreatePdfFails ==
    /\ s_pc = "create"
    /\ \/ s_file' = s_file
       \/ s_file' = OpenedFile("s", NoDoc)
    /\ s_outcome' = Raise("IOError")
    /\ s_pc' = "raised"
    /\ UNCHANGED <<s_content, s_pages, pvars, xvars, wvars, ovars>>

NextSelect == FindPagesReturns \/ FindPagesRaises \/ CreatePdfWrites \/ CreatePdfFails

SpecSelect == InitSelect /\ [][NextSelect]_vars

\* find_financial_pages has returned s_pages for the response s_content
FindReturned == s_content /= NoResponse /\ s_pc \in {"create", "written"}

RECURSIVE FirstAppearances(_)
\* a list without the later repetitions of its entries
FirstAppearances(list) ==
    IF list = <<>> THEN <<>>
    ELSE LET front == FirstAppearances(SubSeq(list, 1, Len(list) - 1))
             last  == list[Len(list)]
         IN  IF \E i \in 1..Len(front) : front[i] = last
             THEN front ELSE Append(front, last)

\* C11: the selection returned is the integer tokens of the response in the
\* order of their first appearance, each page number once.
C11_Deduplicated ==
    FindReturned =>
        /\ \A i, j \in 1..Len(s_pages) : i /= j => s_pages[i] /= s_pages[j]
        /\ s_pages = FirstAppearances(PageNumbers(s_content))

\* C12: every page index in the selection find_financial_pages returns lies
\* within 1..NumPages, a number out of the range being dropped.
C12_SelectionInRange ==
    FindReturned => \A i \in 1..Len(s_pages) : s_pages[i] \in 1..NumPages

\* C13: when every integer token of the response is out of 1..NumPages, the
\* run fails in classification, writes no filtered document and makes no
\* structured-extraction call.
C13_AllOutOfRangeFails ==
    \A r \in Runs :
        (/\ response[r] /= NoResponse
         /\ PageNumbers(response[r]) /= <<>>
         /\ \A i \in 1..Len(PageNumbers(response[r])) :
                PageNumbers(response[r])[i] \notin 1..NumPages) =>
            /\ pc[r] = "FAILED"
            /\ failed_at[r] = "classification"
            /\ FilesOf(r) = {}
            /\ llm_calls[r].extract = 0

\* C14: for a selection of valid indices, the filtered document has as many
\* pages as the selection has entries, and its page k is source page
\* selection[k].
C14_PagesInSelectionOrder ==
    (s_pc = "written" /\ \A i \in 1..Len(s_pages) : s_pages[i] \in 1..NumPages) =>
        /\ Len(s_file.content) = Len(s_pages)
        /\ \A k \in 1..Len(s_pages) : s_file.content[k] = SourceFile(NoDoc).content[s_pages[k]]

\* the selection 2, 1 gives a document of source page 2, then source page 1
C14_Witness ==
    /\ s_pages = <<2, 1>>
    /\ s_pc = "written"
    /\ s_file.content = <<2, 1>>

\* C15: create_financial_pages_pdf called with an empty selection raises and
\* writes no file.
C15_EmptySelectionFails ==
    (s_pc \in {"written", "raised"} /\ s_pages = <<>> /\ s_content = NoResponse) =>
        /\ s_pc = "raised"
        /\ s_file = NoFile

(* ------------------- process_document, C18 to C20 ----------------------- *)

\* C18: process_document leaves every source file where it is and as it is,
\* before, during and after every run, successful or failed.
C18_SourceUntouched == \A d \in Docs : source[d] = SourceFile(d)

\* one run has succeeded and one has failed after reading its document, and
\* the documents they read are as they were
C18_Witness ==
    \E r, q \in Runs :
        /\ pc[r] = "DONE"
        /\ pc[q] = "FAILED"
        /\ failed_at[q] /= "text_read"
        /\ source[file_path[r]] = SourceFile(file_path[r])
        /\ source[file_path[q]] = SourceFile(file_path[q])

\* the position of a stage in the run
StageRank(stage) ==
    CASE stage = "START"         -> 0
      [] stage = "TextRead"      -> 1
      [] stage = "Classified"    -> 2
      [] stage = "WritingPdf"    -> 3
      [] stage = "PagesFiltered" -> 4
      [] stage = "WritingJson"   -> 5
      [] OTHER                   -> 6

\* a step of a run, completion calls included, leaves its stage for a later
\* one or for the end of the run
C19_StepLeavesStage ==
    \A r \in Runs :
        (pc'[r] /= pc[r] \/ llm_calls'[r] /= llm_calls[r] \/ response'[r] /= response[r]) =>
            StageRank(pc'[r]) > StageRank(pc[r])

\* one completion call at most for classification and one for extraction
C19_CallsOnce ==
    \A r \in Runs : llm_calls[r].classify <= 1 /\ llm_calls[r].extract <= 1

\* C19: within one run each stage executes at most once and the completion
\* capability is called at most once for page classification and at most once
\* for structured extraction; nothing is retried.
C19_NoRetry == [][C19_StepLeavesStage]_vars /\ []C19_CallsOnce

\* a run has failed on a response without page numbers, after its one
\* classification call, and another has ended after one call of each kind
C19_Witness ==
    \E r, q \in Runs :
        /\ pc[r] = "FAILED"
        /\ failed_at[r] = "classification"
        /\ response[r] = <<"a", "1">>
        /\ llm_calls[r] = [classify |-> 1, extract |-> 0]
        /\ pc[q] = "DONE"
        /\ llm_calls[q] = [classify |-> 1, extract |-> 1]

\* the statements of process_document after the call that started the run
RunStep(r) ==
    \/ Classify(r)
    \/ FilterOpen(r)
    \/ FilterWrite(r)
    \/ ExtractParse(r)
    \/ ExtractWrite(r)

\* no run is between its first and its last statement
NoneRunning == \A q \in Runs : pc[q] \in {"START", "DONE", "FAILED"}

\* the calls of process_document made one after the other, as by the loop of
\* run_processor over the files of the upload folder, within one second of
\* the clock
NextRuns ==
    \/ \E r \in Runs : NoneRunning /\ ReadText(r)
    \/ \E r \in Runs : RunStep(r)

\* every call a run makes returns or raises, so the run takes its next step
SpecFair == Init /\ [][NextRuns]_vars /\ \A r \in Runs : WF_vars(RunStep(r))

\* C20: every run, once started, eventually reaches DONE or FAILED.
C20_RunEnds ==
    \A r \in Runs : (pc[r] /= "START") ~> (pc[r] \in {"DONE", "FAILED"})

\* both runs were started and have ended, one in DONE and one in FAILED
C20_Witness ==
    \E r, q \in Runs :
        /\ pc[r] = "DONE"
        /\ pc[q] = "FAILED"
        /\ failed_at[q] = "structured_extraction"

(* ------------------ DocumentEventHandler.process_new_document ----------- *)

\* the run that the handler starts
WatchRun == "r1"

\* the except block: Path(file_path).rename(failed_path) on the path in the
\* upload folder, its own failure only logged
MovedToFailed(d) ==
    IF source[d].folder = "upload"
    THEN {[source EXCEPT ![d].folder = "failed"], source}
    ELSE {source}

\* the file is renamed into the processing folder and process_document is
\* called on it
WatchBegin(d) ==
    /\ w_pc = "idle"
    /\ source[d].folder = "upload"
    /\ source' = [source EXCEPT ![d].folder = "processing"]
    /\ w_doc' = d
    /\ w_pc' = "processing"
    /\ UNCHANGED <<now, pc, file_path, response, financial_pages, financial_pdf_path,
                   extracted_data, output_path, outcome, dir_financial_pages,
                   dir_extracted, failed_at, wrote, ran_after, llm_calls,
                   xvars, svars, ovars>>

\* the first rename raises and the except block runs
WatchBeginFails(d) ==
    /\ w_pc = "idle"
    /\ source[d].folder = "upload"
    /\ source' \in MovedToFailed(d)
    /\ w_doc' = d
    /\ w_pc' = "handled"
    /\ UNCHANGED <<now, pc, file_path, response, financial_pages, financial_pdf_path,
                   extracted_data, output_path, outcome, dir_financial_pages,
                   dir_extracted, failed_at, wrote, ran_after, llm_calls,
                   xvars, svars, ovars>>

\* process_document runs on the file in the processing folder
WatchStep ==
    /\ w_pc = "processing"
    /\ \/ ReadText(WatchRun) /\ file_path'[WatchRun] = w_doc
       \/ Classify(WatchRun)
       \/ FilterOpen(WatchRun)
       \/ FilterWrite(WatchRun)
       \/ ExtractParse(WatchRun)
       \/ ExtractWrite(WatchRun)

\* process_document has returned or raised: result["status"], the rename
\* into the completed folder, or the except block
WatchFinish ==
    /\ w_pc = "processing"
    /\ pc[WatchRun] \in {"DONE", "FAILED"}
    /\ IF pc[WatchRun] = "DONE" /\ HasKey(outcome[WatchRun].value, "status")
       THEN source' = [source EXCEPT ![w_doc].folder = "completed"]
       ELSE source' \in MovedToFailed(w_doc)
    /\ w_pc' = "handled"
    /\ UNCHANGED <<now, pc, file_path, response, financial_pages, financial_pdf_path,
                   extracted_data, output_path, outcome, dir_financial_pages,
                   dir_extracted, failed_at, wrote, ran_after, llm_calls,
                   w_doc, xvars, svars, ovars>>

NextWatch ==
    \/ Tick
    \/ \E d \in Docs : WatchBegin(d)
    \/ \E d \in Docs : WatchBeginFails(d)
    \/ WatchStep
    \/ WatchFinish

SpecWatch == Init /\ [][NextWatch]_vars

\* C16: the handler has finished and the run succeeded: the file is in the
\* completed folder.
C16_SuccessMovesToCompleted ==
    (w_pc = "handled" /\ pc[WatchRun] = "DONE") =>
        source[w_doc].folder = "completed"

\* C17: the handler has finished and the run failed: the file is in the
\* failed folder, not in the processing folder.
C17_FailureMovesToFailed ==
    (w_pc = "handled" /\ pc[WatchRun] = "FAILED") =>
        source[w_doc].folder = "failed"

(* --------------------------- C22, C27, C28 ------------------------------ *)

\* every entry of a list is greater than the one before it
Ascending(list) == \A i, j \in 1..Len(list) : i < j => list[i] < list[j]

\* C22 as stated: of any two pages of the filtered document, the one that
\* comes first there also comes first in the source.
C22_OriginalOrder == s_pc = "written" => Ascending(s_file.content)

\* C22 as amended: the pages of the filtered document are in the order of the
\* selection, so they are in their order in the source exactly when the
\* in-range numbers of the selection are ascending.
C22_SelectionOrder ==
    s_pc = "written" =>
        (Ascending(s_file.content) <=>
            Ascending(SelectSeq(s_pages, LAMBDA p : p \in 1..NumPages)))

\* the response "2 1": source page 2 comes first in the filtered document
C22_Witness ==
    /\ s_content = <<"2", " ", "1">>
    /\ s_pc = "written"
    /\ s_file.content = <<2, 1>>
    /\ ~Ascending(s_file.content)

\* C27: a response whose stripped text starts with "{" is parsed as it is; if
\* that text is not one JSON value, the call raises the parse error, returns
\* no record and writes no file.
C27_BraceFirstParsedAsIs ==
    (x_pc /= "call" /\ StartsWith(Strip(x_content), "{")) =>
        /\ x_cleaned = Strip(x_content)
        /\ ~JsonLoads(Strip(x_content)).ok =>
                /\ x_pc = "raised"
                /\ x_outcome = Raise("ValueError: Could not parse JSON")
                /\ x_files = {}

\* the response "{} a": an object followed by prose is refused
C27_Witness ==
    /\ x_content = <<"{", "}", " ", "a">>
    /\ x_cleaned = <<"{", "}", " ", "a">>
    /\ x_pc = "raised"
    /\ x_files = {}

\* a run that has its filtered document read reads the file of its own
\* source document
C28_ReadStep ==
    \A r \in Runs :
        (pc[r] = "PagesFiltered" /\ pc'[r] = "WritingJson") =>
            dir_financial_pages[financial_pdf_path[r]].doc = file_path[r]

\* C28: under concurrent runs on different documents, the text a run sends
\* to structured extraction is the text of the filtered document of its own
\* source document.
C28_ReadsOwnDocument == [][C28_ReadStep]_vars

(* ------------- get_default_dates and analyze_stock: the dates ----------- *)

Years == FirstYear..(FirstYear + NumYears - 1)

\* the days of a month of the proleptic Gregorian calendar of datetime
DaysIn(year, month) ==
    CASE month \in {4, 6, 9, 11} -> 30
      [] month = 2 -> IF year % 4 = 0 /\ (year % 100 /= 0 \/ year % 400 = 0)
                      THEN 29 ELSE 28
      [] OTHER -> 31

Date(year, month, day) == [year |-> year, month |-> month, day |-> day]

\* the values datetime.now() can have
Dates == {dt \in {Date(y, m, d) : y \in Years, m \in 1..12, d \in 1..31} :
            dt.day <= DaysIn(dt.year, dt.month)}

\* the month and year arguments of end_date.replace
StartMonth(end) == IF end.month > 3 THEN end.month - 3 ELSE end.month + 9

StartYear(end) == IF end.month > 3 THEN end.year ELSE end.year - 1

\* datetime.replace raises ValueError when the day is not in the month
ReplaceRaises(end) == end.day > DaysIn(StartYear(end), StartMonth(end))

\* end_date.replace(month = ..., year = ...): the day is kept
Replace(end) == Date(StartYear(end), StartMonth(end), end.day)

\* strftime('%Y-%m-%d')
Strftime(dt) == <<dt.year, dt.month, dt.day>>

InitDates ==
    /\ InitRuns
    /\ IdleExtract
    /\ IdleSelect
    /\ IdleWatch
    /\ IdleLoad
    /\ IdleUploads
    /\ IdleService
    /\ IdleConsumer
    /\ d_now \in Dates
    /\ d_caller \in {"get_default_dates", "analyze_stock"}
    /\ d_pc = "call"
    /\ d_result = <<>>

\* get_default_dates returns the pair of formatted dates
DefaultDatesReturn ==
    /\ d_pc = "call"
    /\ d_caller = "get_default_dates"
    /\ ~ReplaceRaises(d_now)
    /\ d_result' = <<Strftime(Replace(d_now)), Strftime(d_now)>>
    /\ d_pc' = "returned"
    /\ UNCHANGED <<d_now, d_caller, pvars, xvars, svars, wvars, lvars, uvars, vvars, cvars>>

\* end_date.replace raises and get_default_dates catches nothing
DefaultDatesRaise ==
    /\ d_pc = "call"
    /\ d_caller = "get_default_dates"
    /\ ReplaceRaises(d_now)
    /\ d_pc' = "raised"
    /\ UNCHANGED <<d_now, d_caller, d_result, pvars, xvars, svars, wvars, lvars, uvars, vvars, cvars>>

\* analyze_stock computes end_date and start_date and goes on
AnalyzeDatesComputed ==
    /\ d_pc = "call"
    /\ d_caller = "analyze_stock"
    /\ ~ReplaceRaises(d_now)
    /\ d_result' = <<Strftime(Replace(d_now)), Strftime(d_now)>>
    /\ d_pc' = "returned"
    /\ UNCHANGED <<d_now, d_caller, pvars, xvars, svars, wvars, lvars, uvars, vvars, cvars>>

\* replace raises inside the try block of analyze_stock: HTTPException 500
AnalyzeDatesRaise ==
    /\ d_pc = "call"
    /\ d_caller = "analyze_stock"
    /\ ReplaceRaises(d_now)
    /\ d_pc' = "raised"
    /\ UNCHANGED <<d_now, d_caller, d_result, pvars, xvars, svars, wvars, lvars, uvars, vvars, cvars>>

NextDates ==
    \/ DefaultDatesReturn
    \/ DefaultDatesRaise
    \/ AnalyzeDatesComputed
    \/ AnalyzeDatesRaise

SpecDates == InitDates /\ [][NextDates]_vars

\* C30: for every current date the computation returns without error, the
\* end date is the current date and the start date is the same day three
\* calendar months earlier.
C30_ThreeMonthsBack ==
    d_pc \in {"returned", "raised"} =>
        /\ d_pc = "returned"
        /\ d_result[2] = <<d_now.year, d_now.month, d_now.day>>
        /\ d_result[1] =
              IF d_now.month > 3
              THEN <<d_now.year, d_now.month - 3, d_now.day>>
              ELSE <<d_now.year - 1, d_now.month + 9, d_now.day>>

(* ------------------ PEAnalysisAgent.load_financial_data ----------------- *)

Statements == {"balance_sheet", "income_statement", "cash_flow"}

\* the keys _has_required_metrics looks for
Required(statement) ==
    CASE statement = "balance_sheet" -> {"total_debt", "total_assets", "total_equity"}
      [] statement = "income_statement" ->
            {"revenue", "operating_income", "ebitda", "net_income"}
      [] OTHER -> {"operating_cash_flow", "capital_expenditures"}

\* the keys a statement of FinancialDataAPI carries
Supplied(statement) ==
    CASE statement = "balance_sheet" -> Required(statement) \cup {"enterprise_value"}
      [] statement = "income_statement" -> Required(statement) \cup {"revenue_growth"}
      [] OTHER -> Required(statement)

\* a dict with the given keys, every value from the one origin
Dict(keys, origin) == [k \in keys |-> origin]

\* the records a file can hold: the key that names the company, and for each
\* statement of "financial_data" the metrics it has
Records ==
    {[ident |-> id,
      financial_data |-> [st \in Statements |->
            CASE st = "balance_sheet" -> b [] st = "income_statement" -> i [] OTHER -> c]] :
        id \in {"company", "ticker", "company_name", "none"},
        b \in SUBSET Required("balance_sheet"),
        i \in SUBSET Required("income_statement"),
        c \in SUBSET Required("cash_flow")}

\* get_financial_statements: each statement comes whole, or as {} when its
\* request fails
ApiAnswers == {[st \in Statements |-> IF st \in got THEN Supplied(st) ELSE {}] :
                    got \in SUBSET Statements}

\* _has_required_metrics
HasRequiredMetrics(record) ==
    \A st \in Statements : Required(st) \subseteq record.financial_data[st]

\* company = data.get('company') or data.get('ticker')
CompanyOf(record) == record.ident \in {"company", "ticker"}

\* the financial_data of a record as it was loaded
Loaded(record) == [st \in Statements |-> Dict(record.financial_data[st], "record")]

\* _merge_financial_data: a metric of the API is taken when the record has
\* no such key
MergeFinancialData(record, api) ==
    [st \in Statements |->
        [k \in record.financial_data[st] \cup api[st] |->
            IF k \in record.financial_data[st] THEN "record" ELSE "api"]]

InitLoad ==
    /\ InitRuns
    /\ IdleExtract
    /\ IdleSelect
    /\ IdleWatch
    /\ IdleDates
    /\ IdleUploads
    /\ IdleService
    /\ IdleConsumer
    /\ l_record \in Records
    /\ l_api \in ApiAnswers
    /\ l_pc = "call"
    /\ l_called = FALSE
    /\ l_data = <<>>

\* the record has every required metric and is returned as loaded
LoadComplete ==
    /\ l_pc = "call"
    /\ HasRequiredMetrics(l_record)
    /\ l_data' = Loaded(l_record)
    /\ l_pc' = "returned"
    /\ UNCHANGED <<l_record, l_api, l_called, pvars, xvars, svars, wvars, dvars, uvars, vvars, cvars>>

\* a metric is missing and the record names a company: the API is asked and
\* its answer merged
LoadMerged ==
    /\ l_pc = "call"
    /\ ~HasRequiredMetrics(l_record)
    /\ CompanyOf(l_record)
    /\ l_called' = TRUE
    /\ l_data' = MergeFinancialData(l_record, l_api)
    /\ l_pc' = "returned"
    /\ UNCHANGED <<l_record, l_api, pvars, xvars, svars, wvars, dvars, uvars, vvars, cvars>>

\* a metric is missing and the record has no 'company' and no 'ticker': a
\* warning is logged and the record is returned as loaded
LoadNoIdentifier ==
    /\ l_pc = "call"
    /\ ~HasRequiredMetrics(l_record)
    /\ ~CompanyOf(l_record)
    /\ l_data' = Loaded(l_record)
    /\ l_pc' = "returned"
    /\ UNCHANGED <<l_record, l_api, l_called, pvars, xvars, svars, wvars, dvars, uvars, vvars, cvars>>

NextLoad == LoadComplete \/ LoadMerged \/ LoadNoIdentifier

SpecLoad == InitLoad /\ [][NextLoad]_vars

\* C24: when the record lacks a required metric, the API is asked, the data
\* returned has every metric the API supplied that the record lacked, and
\* every value of the record is unchanged.
C24_FallsBackToApi ==
    (l_pc = "returned" /\ ~HasRequiredMetrics(l_record)) =>
        /\ l_called
        /\ \A st \in Statements :
            /\ \A k \in l_api[st] \ l_record.financial_data[st] :
                    k \in DOMAIN l_data[st] /\ l_data[st][k] = "api"
            /\ \A k \in l_record.financial_data[st] :
                    k \in DOMAIN l_data[st] /\ l_data[st][k] = "record"

(* ----------- process_new_document and files of the same name ------------ *)

Folders == {"upload", "processing", "completed", "failed"}

\* no file of that name in that folder
NoUpload == 0

\* Path.rename of folder/name to target/name. The source must be there. On
\* POSIX a file at the target is replaced silently; on Windows the call
\* raises FileExistsError: either outcome, as the platform decides.
Rename(folders, folder, target, name) ==
    LET moved == [raised |-> FALSE,
                  folders |-> [folders EXCEPT ![target][name] = folders[folder][name],
                                              ![folder][name] = NoUpload]]
        raised == [raised |-> TRUE, folders |-> folders]
    IN  IF folders[folder][name] = NoUpload THEN {raised}
        ELSE IF folders[target][name] = NoUpload THEN {moved}
        ELSE {moved, raised}

\* the except block: Path(file_path).rename(failed_path), file_path being the
\* path in the upload folder; an error of the rename is logged
ExceptBlock(folders, name) ==
    {o.folders : o \in Rename(folders, "upload", "failed", name)}

\* what process_document gives its caller
PipelineResults ==
    {Return(ParseResponse(c).val) : c \in {e \in ExtractionResponses : ParseResponse(e).ok}}
        \cup {Raise("Exception")}

InitUploads ==
    /\ InitRuns
    /\ IdleExtract
    /\ IdleSelect
    /\ IdleWatch
    /\ IdleDates
    /\ IdleLoad
    /\ IdleService
    /\ IdleConsumer
    /\ u_folders = [f \in Folders |-> [n \in Docs |-> NoUpload]]
    /\ u_count = 0
    /\ u_pending = {}
    /\ u_pc = "idle"
    /\ u_name = NoDoc

\* a file is put into the upload folder and watchdog queues on_created
UploadArrives(name) ==
    /\ u_count < MaxUploads
    /\ u_folders["upload"][name] = NoUpload
    /\ u_count' = u_count + 1
    /\ u_folders' = [u_folders EXCEPT !["upload"][name] = u_count + 1]
    /\ u_pending' = u_pending \cup {name}
    /\ UNCHANGED <<u_pc, u_name, pvars, xvars, svars, wvars, dvars, lvars, vvars, cvars>>

\* process_new_document up to the call of the pipeline; when the first rename
\* raises, the except block runs and the handler is done
HandleBegin(name) ==
    /\ u_pc = "idle"
    /\ name \in u_pending
    /\ u_pending' = u_pending \ {name}
    /\ \E o \in Rename(u_folders, "upload", "processing", name) :
        IF o.raised
        THEN /\ u_folders' \in ExceptBlock(u_folders, name)
             /\ UNCHANGED <<u_pc, u_name>>
        ELSE /\ u_folders' = o.folders
             /\ u_pc' = "processing"
             /\ u_name' = name
    /\ UNCHANGED <<u_count, pvars, xvars, svars, wvars, dvars, lvars, vvars, cvars>>

\* process_new_document from the return of the pipeline to its end
HandleFinish ==
    /\ u_pc = "processing"
    /\ \E result \in PipelineResults :
        IF result.kind = "return" /\ HasKey(result.value, "status")
        THEN \E o \in Rename(u_folders, "processing", "completed", u_name) :
                IF o.raised
                THEN u_folders' \in ExceptBlock(u_folders, u_name)
                ELSE u_folders' = o.folders
        ELSE u_folders' \in ExceptBlock(u_folders, u_name)
    /\ u_pc' = "idle"
    /\ u_name' = NoDoc
    /\ UNCHANGED <<u_count, u_pending, pvars, xvars, svars, wvars, dvars, lvars, vvars, cvars>>

NextUploads ==
    \/ \E name \in Docs : UploadArrives(name)
    \/ \E name \in Docs : HandleBegin(name)
    \/ HandleFinish

SpecUploads == InitUploads /\ [][NextUploads]_vars

\* the places where an uploaded file is
PlacesOf(id) ==
    {<<f, n>> \in Folders \X Docs : u_folders[f][n] = id}

\* C23: every file that was uploaded is in exactly one of the four folders,
\* whatever uploads and handlings have taken place.
C23_UploadsKept ==
    \A id \in 1..u_count : Cardinality(PlacesOf(id)) = 1

(* ------------- the document service: run_processor, then main ----------- *)

\* the call of process_document the service is in
ServiceRun == "r1"

\* the lists glob can give for the upload folder
FileLists ==
    {<<>>} \cup {<<d>> : d \in Docs} \cup {<<d, e>> : <<d, e>> \in {de \in Docs \X Docs : de[1] /= de[2]}}

\* enhanced_data of the module-level process_document
EnhancedData(data) == <<"{", "k", "a", "k">> \o data \o <<"}">>

InitService ==
    /\ InitRuns
    /\ IdleExtract
    /\ IdleSelect
    /\ IdleWatch
    /\ IdleDates
    /\ IdleLoad
    /\ IdleUploads
    /\ IdleConsumer
    /\ v_pc = "loop"
    /\ v_files \in FileLists
    /\ v_next = 1
    /\ v_doc = NoDoc
    /\ v_handed = [d \in Docs |-> 0]

\* a new call of processor.process_document(doc) begins
Called(doc) ==
    /\ v_doc' = doc
    /\ v_handed' = [v_handed EXCEPT ![doc] = @ + 1]
    /\ pc' = [pc EXCEPT ![ServiceRun] = "START"]
    /\ file_path' = [file_path EXCEPT ![ServiceRun] = NoDoc]
    /\ response' = [response EXCEPT ![ServiceRun] = NoResponse]
    /\ financial_pages' = [financial_pages EXCEPT ![ServiceRun] = <<>>]
    /\ financial_pdf_path' = [financial_pdf_path EXCEPT ![ServiceRun] = NoPath]
    /\ extracted_data' = [extracted_data EXCEPT ![ServiceRun] = <<>>]
    /\ output_path' = [output_path EXCEPT ![ServiceRun] = NoPath]
    /\ outcome' = [outcome EXCEPT ![ServiceRun] = NoOutcome]
    /\ failed_at' = [failed_at EXCEPT ![ServiceRun] = "none"]
    /\ wrote' = [wrote EXCEPT ![ServiceRun] = {}]
    /\ ran_after' = [ran_after EXCEPT ![ServiceRun] = {}]
    /\ llm_calls' = [llm_calls EXCEPT ![ServiceRun] = NoCalls]
    /\ UNCHANGED <<now, dir_financial_pages, dir_extracted, source>>

\* run_processor: for file in existing_files: event_handler.process_document
ServiceLoopHands ==
    /\ v_pc = "loop"
    /\ v_next <= Len(v_files)
    /\ Called(v_files[v_next])
    /\ v_pc' = "loop_run"
    /\ UNCHANGED <<v_files, v_next, xvars, svars, wvars, dvars, lvars, uvars, cvars>>

\* the pipeline runs, for run_processor or for main
ServiceStep ==
    /\ v_pc \in {"loop_run", "main_run"}
    /\ \/ ReadText(ServiceRun) /\ file_path'[ServiceRun] = v_doc
       \/ Classify(ServiceRun)
       \/ FilterOpen(ServiceRun)
       \/ FilterWrite(ServiceRun)
       \/ ExtractParse(ServiceRun)
       \/ ExtractWrite(ServiceRun)

\* the call returned: the loop goes to the next file
ServiceLoopReturns ==
    /\ v_pc = "loop_run"
    /\ pc[ServiceRun] = "DONE"
    /\ v_next' = v_next + 1
    /\ v_pc' = "loop"
    /\ UNCHANGED <<v_files, v_doc, v_handed, pvars, xvars, svars, wvars, dvars, lvars, uvars, cvars>>

\* the call raised: nothing in run_processor or under __main__ catches it
ServiceLoopRaises ==
    /\ v_pc = "loop_run"
    /\ pc[ServiceRun] = "FAILED"
    /\ v_pc' = "crashed"
    /\ UNCHANGED <<v_files, v_next, v_doc, v_handed, pvars, xvars, svars, wvars, dvars, lvars, uvars, cvars>>

\* the loop is over and, watch_mode being False, run_processor returns;
\* main calls process_document, which finds no PDF and returns None
ServiceMainNoFile ==
    /\ v_pc = "loop"
    /\ v_next > Len(v_files)
    /\ v_files = <<>>
    /\ v_pc' = "done"
    /\ UNCHANGED <<v_files, v_next, v_doc, v_handed, pvars, xvars, svars, wvars, dvars, lvars, uvars, cvars>>

\* the loop is over; main calls process_document, which takes the most
\* recently modified PDF of the upload folder and hands it to the pipeline
ServiceMainHands ==
    /\ v_pc = "loop"
    /\ v_next > Len(v_files)
    /\ \E i \in 1..Len(v_files) : Called(v_files[i])
    /\ v_pc' = "main_run"
    /\ UNCHANGED <<v_files, v_next, xvars, svars, wvars, dvars, lvars, uvars, cvars>>

\* the pipeline returned: the enhanced record is saved under
\* financial_data_<timestamp>.json, or the save raises and main exits
ServiceMainSaves ==
    /\ v_pc = "main_run"
    /\ pc[ServiceRun] = "DONE"
    /\ \/ /\ dir_extracted' = [dir_extracted EXCEPT ![now] =
                WrittenFile("enhanced", v_doc, EnhancedData(outcome[ServiceRun].value))]
          /\ v_pc' = "done"
       \/ /\ dir_extracted' \in {dir_extracted,
                [dir_extracted EXCEPT ![now] = OpenedFile("enhanced", v_doc)]}
          /\ v_pc' = "crashed"
    /\ UNCHANGED <<now, pc, file_path, response, financial_pages, financial_pdf_path,
                   extracted_data, output_path, outcome, dir_financial_pages,
                   failed_at, wrote, ran_after, source, llm_calls,
                   v_files, v_next, v_doc, v_handed,
                   xvars, svars, wvars, dvars, lvars, uvars, cvars>>

\* the pipeline raised: process_document re-raises and main calls sys.exit(1)
ServiceMainRaises ==
    /\ v_pc = "main_run"
    /\ pc[ServiceRun] = "FAILED"
    /\ v_pc' = "crashed"
    /\ UNCHANGED <<v_files, v_next, v_doc, v_handed, pvars, xvars, svars, wvars, dvars, lvars, uvars, cvars>>

NextService ==
    \/ Tick
    \/ ServiceLoopHands
    \/ ServiceStep
    \/ ServiceLoopReturns
    \/ ServiceLoopRaises
    \/ ServiceMainNoFile
    \/ ServiceMainHands
    \/ ServiceMainSaves
    \/ ServiceMainRaises

SpecService == InitService /\ [][NextService]_vars

\* a file a pipeline run wrote completely stays as it is
C21_KeptStep ==
    \A p \in Paths :
        (dir_extracted[p].state = "complete" /\ dir_extracted[p].writer \in Runs) =>
            dir_extracted'[p] = dir_extracted[p]

\* C21: once a pipeline run has written its extracted-data file, the content
\* at that path never changes, whatever the service or another run does next.
C21_ArtifactImmutable == [][C21_KeptStep]_vars

\* C25: when the service has ended, every PDF that was in the upload folder
\* has been handed to the pipeline, whether or not another document failed.
C25_FailureDoesNotStopService ==
    v_pc \in {"done", "crashed"} =>
        \A i \in 1..Len(v_files) : v_handed[v_files[i]] >= 1

\* C26: within one execution of the service each PDF is handed to the
\* pipeline at most once.
C26_HandedOnce == \A d \in Docs : v_handed[d] <= 1

(* ------- the consumers of extracted_data: the most recent JSON file ----- *)

\* open(path, 'w') and json.dump: the file of that name is the newest now
Write(folder, file) ==
    SelectSeq(folder, LAMBDA f : f.name /= file.name) \o <<file>>

\* financial_data_<timestamp>.json
FinancialDataName(timestamp) == <<"financial_data", timestamp>>

\* temp_analysis.json
TempName == <<"temp_analysis", NoPath>>

\* max(json_files, key=lambda x: x.stat().st_mtime)
Latest(folder) == folder[Len(folder)]

InitConsumer ==
    /\ InitRuns
    /\ IdleExtract
    /\ IdleSelect
    /\ IdleWatch
    /\ IdleDates
    /\ IdleLoad
    /\ IdleUploads
    /\ IdleService
    /\ c_folder = <<>>
    /\ c_run = NoDoc
    /\ c_writes = 0
    /\ c_pc = "waiting"
    /\ c_read = <<>>

\* a pipeline run on a document completes: extract_from_financial_pdf has
\* written financial_data_<timestamp>.json. The consumer may be after it.
RunCompletes(doc) ==
    /\ c_pc = "waiting"
    /\ c_writes < MaxWrites
    /\ c_writes' = c_writes + 1
    /\ c_folder' = Write(c_folder, [name |-> FinancialDataName(now), writer |-> "pipeline", doc |-> doc])
    /\ c_run' \in {c_run, doc}
    /\ UNCHANGED <<c_pc, c_read, pvars, xvars, svars, wvars, dvars, lvars, uvars, vvars>>

\* the document service saves the enriched record of a document whose
\* pipeline record is in the folder
EnrichedSaved(doc) ==
    /\ c_pc = "waiting"
    /\ c_writes < MaxWrites
    /\ \E i \in 1..Len(c_folder) : c_folder[i].writer = "pipeline" /\ c_folder[i].doc = doc
    /\ c_writes' = c_writes + 1
    /\ c_folder' = Write(c_folder, [name |-> FinancialDataName(now), writer |-> "enriched", doc |-> doc])
    /\ UNCHANGED <<c_run, c_pc, c_read, pvars, xvars, svars, wvars, dvars, lvars, uvars, vvars>>

\* add_pe_analysis writes temp_analysis.json
TempWritten ==
    /\ c_pc = "waiting"
    /\ c_writes < MaxWrites
    /\ c_writes' = c_writes + 1
    /\ c_folder' = Write(c_folder, [name |-> TempName, writer |-> "pe_analysis", doc |-> NoDoc])
    /\ UNCHANGED <<c_run, c_pc, c_read, pvars, xvars, svars, wvars, dvars, lvars, uvars, vvars>>

\* add_pe_analysis: temp_path.unlink()
TempRemoved ==
    /\ c_pc = "waiting"
    /\ \E i \in 1..Len(c_folder) : c_folder[i].name = TempName
    /\ c_folder' = SelectSeq(c_folder, LAMBDA f : f.name /= TempName)
    /\ UNCHANGED <<c_run, c_writes, c_pc, c_read, pvars, xvars, svars, wvars, dvars, lvars, uvars, vvars>>

\* run_hedge_fund or run_search, after R has completed: the most recently
\* modified JSON file is loaded
ConsumerReads ==
    /\ c_pc = "waiting"
    /\ c_run /= NoDoc
    /\ c_folder /= <<>>
    /\ c_read' = Latest(c_folder)
    /\ c_pc' = "read"
    /\ UNCHANGED <<c_folder, c_run, c_writes, pvars, xvars, svars, wvars, dvars, lvars, uvars, vvars>>

\* the clock of the timestamps goes on
ConsumerTick ==
    /\ Tick
    /\ UNCHANGED cvars

NextConsumer ==
    \/ ConsumerTick
    \/ \E doc \in Docs : RunCompletes(doc)
    \/ \E doc \in Docs : EnrichedSaved(doc)
    \/ TempWritten
    \/ TempRemoved
    \/ ConsumerReads

SpecConsumer == InitConsumer /\ [][NextConsumer]_vars

\* C29: the consumer that takes the most recently modified JSON file after
\* run R has completed reads the record the pipeline wrote for R's document.
C29_ConsumerReadsRunRecord ==
    c_pc = "read" => (c_read.writer = "pipeline" /\ c_read.doc = c_run)

====
